---- MODULE Spec2Model ----
(***************************************************************************)
(* asio::detail::channel_service: one channel implementation               *)
(* (implementation_type<T>), the operations allocated for it and the       *)
(* completions handed to the io_service.                                   *)
(*                                                                         *)
(* Operations (channel_op<T>) live in a heap `ops`, indexed by the order   *)
(* of their allocation; putters_, getters_ and the io_service's queue      *)
(* hold indices into it, as the code holds pointers.                       *)
(***************************************************************************)
EXTENDS Integers, Sequences, FiniteSets, TLC

\* ---- bounds ----
MaxCap == 2      \* largest max_buffer_size passed to construct
MaxOps == 5      \* number of operations allocated in one behaviour

\* channel_service only moves values of T (set_value, get_value, buffer_),
\* it never inspects them: the value of a put is a tuple that names the
\* put, so that every value in the channel can be told from every other and
\* from an operation index.
NewValue(s) == <<Len(s.ops) + 1>>
NoValue == <<>>  \* the value slot of a get operation before set_value

VARIABLES
  life,              \* "raw" | "live" | "dead" (destroyed or shut down)
  open_,             \* base_implementation_type::open_
  max_buffer_size_,  \* base_implementation_type::max_buffer_size_
  buffer_,           \* implementation_type<T>::buffer_
  putters_,          \* base_implementation_type::putters_
  getters_,          \* base_implementation_type::getters_
  ops,               \* heap of channel_op<T> objects
  posted,            \* completions handed to io_service_, in order
  hint,              \* is_continuation of the latest post_immediate_completion
  work_started_      \* number of io_service_.work_started() calls

vars == <<life, open_, max_buffer_size_, buffer_, putters_, getters_,
          ops, posted, hint, work_started_>>

\* The whole state as one record, so that operations compose.
State ==
  [life |-> life, open_ |-> open_, max_buffer_size_ |-> max_buffer_size_,
   buffer_ |-> buffer_, putters_ |-> putters_, getters_ |-> getters_,
   ops |-> ops, posted |-> posted, hint |-> hint,
   work_started_ |-> work_started_]

\* The step that replaces the state by t.
Commit(t) ==
  /\ life' = t.life
  /\ open_' = t.open_
  /\ max_buffer_size_' = t.max_buffer_size_
  /\ buffer_' = t.buffer_
  /\ putters_' = t.putters_
  /\ getters_' = t.getters_
  /\ ops' = t.ops
  /\ posted' = t.posted
  /\ hint' = t.hint
  /\ work_started_' = t.work_started_

\* ---- io_service interface ----
post_immediate_completion(s, op, is_continuation) ==
  [s EXCEPT !.posted = Append(@, [op |-> op, mode |-> "immediate"]),
            !.hint = is_continuation]

post_deferred_completion(s, op) ==
  [s EXCEPT !.posted = Append(@, [op |-> op, mode |-> "deferred"])]

work_started(s) ==
  [s EXCEPT !.work_started_ = @ + 1]

\* ---- operation allocation (async_put / async_get) ----
\* The value of a put operation stays readable in the heap after it has
\* been moved out: nothing in channel_service reads it again.
new_put_op(s, value) ==
  [s EXCEPT !.ops = Append(@, [kind |-> "put", value |-> value, ec |-> "none"])]

new_get_op(s) ==
  [s EXCEPT !.ops = Append(@, [kind |-> "get", value |-> NoValue, ec |-> "none"])]

\* ---- do_put ----
\* if (!impl.open_)
put_broken(s, putter, is_continuation) ==
  post_immediate_completion(
    [s EXCEPT !.ops[putter].ec = "broken_pipe"],
    putter, is_continuation)

\* Variant of put_to_getter: the two dispatch modes are exchanged.
put_to_getter_swapped(s, putter, is_continuation) ==
  LET getter == Head(s.getters_)
      s1 == [s EXCEPT !.ops[getter].value = s.ops[putter].value,
                      !.getters_ = Tail(@)]
  IN post_deferred_completion(
       post_immediate_completion(s1, getter, is_continuation), putter)

\* else if (getter = impl.getters_.front())
put_to_getter(s, putter, is_continuation) ==
  LET getter == Head(s.getters_)
      s1 == [s EXCEPT !.ops[getter].value = s.ops[putter].value,
                      !.getters_ = Tail(@)]
  IN post_immediate_completion(post_deferred_completion(s1, getter),
                               putter, is_continuation)

\* Variant of put_has_room: the comparison admits one element too many.
put_has_room_inclusive(s) ==
  Len(s.buffer_) <= s.max_buffer_size_

\* if (impl.buffer_.size() < impl.max_buffer_size_)
put_has_room(s) ==
  Len(s.buffer_) < s.max_buffer_size_

\* Variant of put_to_buffer: the caller's is_continuation is not passed on.
put_to_buffer_no_hint(s, putter, is_continuation) ==
  post_immediate_completion(
    [s EXCEPT !.buffer_ = Append(@, s.ops[putter].value)],
    putter, FALSE)

\* Variant of put_to_buffer: the value is put at the front of buffer_.
put_to_buffer_front(s, putter, is_continuation) ==
  post_immediate_completion(
    [s EXCEPT !.buffer_ = <<s.ops[putter].value>> \o @],
    putter, is_continuation)

put_to_buffer(s, putter, is_continuation) ==
  post_immediate_completion(
    [s EXCEPT !.buffer_ = Append(@, s.ops[putter].value)],
    putter, is_continuation)

\* Variant of put_wait: io_service_.work_started() is left out.
put_wait_no_work(s, putter) ==
  [s EXCEPT !.putters_ = Append(@, putter)]

put_wait(s, putter) ==
  work_started([s EXCEPT !.putters_ = Append(@, putter)])

\* Variant of do_put: open_ is tested last, in the order do_get tests it.
do_put_open_last(s, putter, is_continuation) ==
  IF s.getters_ # <<>> THEN put_to_getter(s, putter, is_continuation)
  ELSE IF put_has_room(s) THEN put_to_buffer(s, putter, is_continuation)
  ELSE IF s.open_ THEN put_wait(s, putter)
  ELSE put_broken(s, putter, is_continuation)

\* Variant of do_put: the queued-getter branch is left out.
do_put_no_handoff(s, putter, is_continuation) ==
  IF ~s.open_ THEN put_broken(s, putter, is_continuation)
  ELSE IF put_has_room(s) THEN put_to_buffer(s, putter, is_continuation)
  ELSE put_wait(s, putter)

do_put(s, putter, is_continuation) ==
  IF ~s.open_ THEN put_broken(s, putter, is_continuation)
  ELSE IF s.getters_ # <<>> THEN put_to_getter(s, putter, is_continuation)
  ELSE IF put_has_room(s) THEN put_to_buffer(s, putter, is_continuation)
  ELSE put_wait(s, putter)

\* ---- do_get ----
\* Variant of get_refill: the freed slot is not refilled.
get_refill_none(s) ==
  s

\* Variant of get_refill: the putter's value is put at the front.
get_refill_front(s) ==
  IF s.putters_ # <<>>
  THEN LET putter == Head(s.putters_)
       IN post_deferred_completion(
            [s EXCEPT !.buffer_ = <<s.ops[putter].value>> \o @,
                      !.putters_ = Tail(@)],
            putter)
  ELSE s

\* if (putter = impl.putters_.front()) inside the buffered branch
get_refill(s) ==
  IF s.putters_ # <<>>
  THEN LET putter == Head(s.putters_)
       IN post_deferred_completion(
            [s EXCEPT !.buffer_ = Append(@, s.ops[putter].value),
                      !.putters_ = Tail(@)],
            putter)
  ELSE s

\* if (!impl.buffer_.empty())
get_from_buffer(s, getter, is_continuation) ==
  LET s1 == [s EXCEPT !.ops[getter].value = Head(s.buffer_),
                      !.buffer_ = Tail(@)]
  IN post_immediate_completion(get_refill(s1), getter, is_continuation)

\* Variant of get_from_putter: the most recently queued putter is taken.
get_from_putter_lifo(s, getter, is_continuation) ==
  LET putter == s.putters_[Len(s.putters_)]
      s1 == [s EXCEPT !.ops[getter].value = s.ops[putter].value,
                      !.putters_ = SubSeq(@, 1, Len(@) - 1)]
  IN post_immediate_completion(post_deferred_completion(s1, putter),
                               getter, is_continuation)

\* Variant of get_from_putter: impl.putters_.pop() is left out.
get_from_putter_no_pop(s, getter, is_continuation) ==
  LET putter == Head(s.putters_)
      s1 == [s EXCEPT !.ops[getter].value = s.ops[putter].value]
  IN post_immediate_completion(post_deferred_completion(s1, putter),
                               getter, is_continuation)

\* Variant of get_from_putter: the two dispatch modes are exchanged.
get_from_putter_swapped(s, getter, is_continuation) ==
  LET putter == Head(s.putters_)
      s1 == [s EXCEPT !.ops[getter].value = s.ops[putter].value,
                      !.putters_ = Tail(@)]
  IN post_deferred_completion(
       post_immediate_completion(s1, putter, is_continuation), getter)

\* Variant of get_from_putter: the putter's value is also left in buffer_.
get_from_putter_buffered(s, getter, is_continuation) ==
  LET putter == Head(s.putters_)
      s1 == [s EXCEPT !.ops[getter].value = s.ops[putter].value,
                      !.buffer_ = Append(@, s.ops[putter].value),
                      !.putters_ = Tail(@)]
  IN post_immediate_completion(post_deferred_completion(s1, putter),
                               getter, is_continuation)

\* else if (putter = impl.putters_.front())
get_from_putter(s, getter, is_continuation) ==
  LET putter == Head(s.putters_)
      s1 == [s EXCEPT !.ops[getter].value = s.ops[putter].value,
                      !.putters_ = Tail(@)]
  IN post_immediate_completion(post_deferred_completion(s1, putter),
                               getter, is_continuation)

\* else if (impl.open_)
get_wait(s, getter) ==
  work_started([s EXCEPT !.getters_ = Append(@, getter)])

\* else
get_broken(s, getter, is_continuation) ==
  post_immediate_completion(
    [s EXCEPT !.ops[getter].ec = "broken_pipe"],
    getter, is_continuation)

\* Variant of do_get: a get that finds nothing waits, open or not.
do_get_always_wait(s, getter, is_continuation) ==
  IF s.buffer_ # <<>> THEN get_from_buffer(s, getter, is_continuation)
  ELSE IF s.putters_ # <<>> THEN get_from_putter(s, getter, is_continuation)
  ELSE get_wait(s, getter)

\* Variant of do_get: open_ is tested first, in the order do_put tests it.
do_get_open_first(s, getter, is_continuation) ==
  IF ~s.open_ THEN get_broken(s, getter, is_continuation)
  ELSE IF s.buffer_ # <<>> THEN get_from_buffer(s, getter, is_continuation)
  ELSE IF s.putters_ # <<>> THEN get_from_putter(s, getter, is_continuation)
  ELSE get_wait(s, getter)

do_get(s, getter, is_continuation) ==
  IF s.buffer_ # <<>> THEN get_from_buffer(s, getter, is_continuation)
  ELSE IF s.putters_ # <<>> THEN get_from_putter(s, getter, is_continuation)
  ELSE IF s.open_ THEN get_wait(s, getter)
  ELSE get_broken(s, getter, is_continuation)

\* ---- async_put / async_get as functions of the state ----
put_call(s, value, is_continuation) ==
  do_put(new_put_op(s, value), Len(s.ops) + 1, is_continuation)

get_call(s, is_continuation) ==
  do_get(new_get_op(s), Len(s.ops) + 1, is_continuation)

\* ---- open ----
open_call(s) == [s EXCEPT !.open_ = TRUE]

\* ---- close, cancel, destroy, shutdown_service, construct ----
\* channel_service.hpp only declares these (ASIO_DECL); their bodies are
\* in impl/channel_service.ipp. They are modelled from their documented
\* behaviour: close clears open_ and resolves every queued getter and
\* putter with broken_pipe; cancel resolves them with operation_aborted
\* and leaves open_; destroy and shutdown_service cancel what is queued and
\* end the life of the implementation; construct fixes max_buffer_size_.
\* Resolve every operation of the queue q with error ec.
RECURSIVE fail_all(_, _, _)
fail_all(s, q, ec) ==
  IF q = <<>> THEN s
  ELSE fail_all(post_immediate_completion(
                  [s EXCEPT !.ops[Head(q)].ec = ec], Head(q), FALSE),
                Tail(q), ec)

drain(s, ec) ==
  [fail_all(fail_all(s, s.getters_, ec), s.putters_, ec)
     EXCEPT !.getters_ = <<>>, !.putters_ = <<>>]

\* Variant of close_call: only the queued getters are resolved.
close_call_getters_only(s) ==
  [fail_all([s EXCEPT !.open_ = FALSE], s.getters_, "broken_pipe")
     EXCEPT !.getters_ = <<>>]

\* Variant of close_call: the resolved operations are left in the queues.
close_call_keep_queues(s) ==
  fail_all(fail_all([s EXCEPT !.open_ = FALSE], s.getters_, "broken_pipe"),
           s.putters_, "broken_pipe")

close_call(s) == drain([s EXCEPT !.open_ = FALSE], "broken_pipe")

\* Variant of cancel_call: cancel is close with another error code.
cancel_call_closes(s) ==
  drain([s EXCEPT !.open_ = FALSE], "operation_aborted")

cancel_call(s) == drain(s, "operation_aborted")

destroy_call(s) == [cancel_call(s) EXCEPT !.life = "dead"]

shutdown_call(s) == [cancel_call(s) EXCEPT !.life = "dead"]

construct_call(s, max_buffer_size) ==
  [s EXCEPT !.max_buffer_size_ = max_buffer_size, !.life = "live"]

\* ---- ready ----
\* Variant of ready: the queued putters are not looked at.
ready_buffer_only(s) ==
  s.buffer_ # <<>>

ready(s) ==
  s.buffer_ # <<>> \/ s.putters_ # <<>>

\* ---- the state machine ----
Init ==
  /\ life = "raw"
  /\ open_ = TRUE
  /\ max_buffer_size_ = 0
  /\ buffer_ = <<>>
  /\ putters_ = <<>>
  /\ getters_ = <<>>
  /\ ops = <<>>
  /\ posted = <<>>
  /\ hint = FALSE
  /\ work_started_ = 0

construct ==
  /\ life = "raw"
  /\ \E n \in 0..MaxCap : Commit(construct_call(State, n))

async_put ==
  /\ life = "live"
  /\ Len(ops) < MaxOps
  /\ \E v \in {NewValue(State)}, c \in BOOLEAN :
       Commit(put_call(State, v, c))

async_get ==
  /\ life = "live"
  /\ Len(ops) < MaxOps
  /\ \E c \in BOOLEAN : Commit(get_call(State, c))

open ==
  /\ life = "live"
  /\ Commit(open_call(State))

close ==
  /\ life = "live"
  /\ Commit(close_call(State))

cancel ==
  /\ life = "live"
  /\ Commit(cancel_call(State))

destroy ==
  /\ life = "live"
  /\ Commit(destroy_call(State))

shutdown_service ==
  /\ life = "live"
  /\ Commit(shutdown_call(State))

Next ==
  \/ construct
  \/ async_put
  \/ async_get
  \/ open
  \/ close
  \/ cancel
  \/ destroy
  \/ shutdown_service

Spec == Init /\ [][Next]_vars

TypeOK ==
  /\ life \in {"raw", "live", "dead"}
  /\ open_ \in BOOLEAN
  /\ max_buffer_size_ \in 0..(MaxCap + 1)
  /\ Len(ops) <= MaxOps + 1
  /\ work_started_ \in 0..(MaxOps + 1)
  /\ hint \in BOOLEAN

\* ---- observations used by the properties ----
\* The operations of kind k handed to the io_service, as a set of indices.
IsPosted(i) == \E k \in 1..Len(posted) : posted[k].op = i

PostedAs(i, mode) ==
  \E k \in 1..Len(posted) : posted[k].op = i /\ posted[k].mode = mode

Occ(q, i) == Cardinality({k \in 1..Len(q) : q[k] = i})

OccPosted(i) == Cardinality({k \in 1..Len(posted) : posted[k].op = i})

\* A step that allocates and submits one put (resp. get) operation.
PutStep == Len(ops') = Len(ops) + 1 /\ ops'[Len(ops')].kind = "put"

GetStep == Len(ops') = Len(ops) + 1 /\ ops'[Len(ops')].kind = "get"

\* C1: the number of buffered values never exceeds the capacity of the
\* channel, in every reachable state (the refill step of do_get pops one
\* value before it appends the queued putter's value).
C1_BufferBounded ==
  Len(buffer_) <= max_buffer_size_

\* A full buffer that was refilled from a queued putter by a get.
C1_Witness ==
  /\ max_buffer_size_ > 0
  /\ Len(buffer_) = max_buffer_size_
  /\ \E i \in 1..Len(ops) : ops[i].kind = "put" /\ PostedAs(i, "deferred")

\* C2: every operation submitted is, at any time, in exactly one place:
\* queued in putters_ or getters_ once, or handed to the io_service once;
\* never both, never twice; and none remains queued after destroy: each
\* has then been handed over exactly once.
C2_ResolvedExactlyOnce ==
  /\ \A i \in 1..Len(ops) :
       Occ(putters_, i) + Occ(getters_, i) + OccPosted(i) = 1
  /\ life = "dead" =>
       /\ putters_ = <<>>
       /\ getters_ = <<>>
       /\ \A i \in 1..Len(ops) : OccPosted(i) = 1

\* A channel destroyed (or shut down with its service) whose operations
\* were resolved by a peer, by close and by the final cancellation.
C2_Witness ==
  /\ life = "dead"
  /\ \E i \in 1..Len(ops) : ops[i].ec = "operation_aborted"
  /\ \E i \in 1..Len(ops) : ops[i].ec = "broken_pipe"
  /\ \E i \in 1..Len(ops) : ops[i].ec = "none" /\ PostedAs(i, "deferred")

\* C3: putters_ and getters_ are never both non-empty.
C3_NotBothWaiting ==
  ~(putters_ # <<>> /\ getters_ # <<>>)

\* A queued getter was matched by a put, and a queued putter by a get,
\* and a putter is waiting again.
C3_Witness ==
  /\ \E i \in 1..Len(ops) : ops[i].kind = "get" /\ PostedAs(i, "deferred")
  /\ \E i \in 1..Len(ops) : ops[i].kind = "put" /\ PostedAs(i, "deferred")

\* The step hands exactly the operations of the sequence es to the
\* io_service, in that order, after those already handed over.
PostedNow(es) ==
  /\ Len(posted') = Len(posted) + Len(es)
  /\ SubSeq(posted', 1, Len(posted)) = posted
  /\ \A k \in 1..Len(es) :
       /\ posted'[Len(posted) + k].op = es[k].op
       /\ posted'[Len(posted) + k].mode = es[k].mode

\* The operations allocated before the step are left as they were.
OldOpsUnchanged == SubSeq(ops', 1, Len(ops)) = ops

\* The front of the queue q is released: q loses its front, which was
\* submitted before every operation that stays queued.
ReleasedFront(q, qn) ==
  /\ qn = Tail(q)
  /\ \A k \in 1..Len(qn) : Head(q) < qn[k]

\* C4: wait queues are FIFO. A get that finds queued putters releases
\* exactly one, the one submitted first, and hands it to the io_service;
\* a put on an open channel that finds queued getters releases exactly one
\* getter, the one submitted first.
C4_Fifo ==
  [][/\ (GetStep /\ putters_ # <<>>) =>
          /\ ReleasedFront(putters_, putters_')
          /\ Len(posted') = Len(posted) + 2
          /\ \E k \in (Len(posted) + 1)..Len(posted') :
               posted'[k].op = Head(putters_)
     /\ (PutStep /\ open_ /\ getters_ # <<>>) =>
          /\ ReleasedFront(getters_, getters_')
          /\ Len(posted') = Len(posted) + 2
          /\ \E k \in (Len(posted) + 1)..Len(posted') :
               posted'[k].op = Head(getters_)
    ]_vars

\* Two putters that waited at the same time were released by two gets, the
\* one submitted first being released first.
C4_Witness ==
  /\ Len(ops) >= 4
  /\ ops[1].kind = "put" /\ ops[2].kind = "put"
  /\ ops[3].kind = "get" /\ ops[4].kind = "get"
  /\ \E a, b \in 1..Len(posted) :
       /\ a < b
       /\ posted[a].op = 1 /\ posted[a].mode = "deferred"
       /\ posted[b].op = 2 /\ posted[b].mode = "deferred"

\* C5: a put submitted while the channel is closed resolves with
\* broken_pipe through post_immediate_completion, whatever the buffer holds
\* and whatever the capacity; buffer_, putters_, getters_ and open_ are
\* unchanged, the operation is not queued and work_started is not called.
C5_PutOnClosed ==
  [][(PutStep /\ ~open_) =>
       /\ ops'[Len(ops')].ec = "broken_pipe"
       /\ PostedNow(<<[op |-> Len(ops'), mode |-> "immediate"]>>)
       /\ OldOpsUnchanged
       /\ UNCHANGED <<buffer_, putters_, getters_, open_, work_started_,
                      max_buffer_size_>>
    ]_vars

\* The last operation is a put refused on a closed channel whose buffer is
\* neither empty nor full.
C5_Witness ==
  /\ ~open_
  /\ buffer_ # <<>>
  /\ Len(buffer_) < max_buffer_size_
  /\ Len(posted) > 0
  /\ posted[Len(posted)].op = Len(ops)
  /\ posted[Len(posted)].mode = "immediate"
  /\ ops[Len(ops)].kind = "put"
  /\ ops[Len(ops)].ec = "broken_pipe"

\* C6: on a closed channel a get takes the oldest buffered value and
\* succeeds while the buffer is non-empty (so k buffered values serve the
\* next k gets, oldest first), and resolves with broken_pipe through
\* post_immediate_completion, without being queued, once the buffer is
\* empty; and a get operation gets broken_pipe only in a step that leaves
\* the channel closed with an empty buffer.
C6_GetOnClosed ==
  [][/\ (GetStep /\ ~open_) =>
          /\ PostedNow(<<[op |-> Len(ops'), mode |-> "immediate"]>>)
          /\ OldOpsUnchanged
          /\ UNCHANGED <<getters_, putters_, open_, work_started_>>
          /\ IF buffer_ # <<>>
             THEN /\ ops'[Len(ops')].value = Head(buffer_)
                  /\ ops'[Len(ops')].ec = "none"
                  /\ buffer_' = Tail(buffer_)
             ELSE /\ ops'[Len(ops')].ec = "broken_pipe"
                  /\ buffer_' = buffer_
     /\ \A i \in 1..Len(ops') :
          (/\ ops'[i].kind = "get"
           /\ ops'[i].ec = "broken_pipe"
           /\ (i > Len(ops) \/ ops[i].ec # "broken_pipe"))
          => (~open_' /\ buffer_' = <<>>)
    ]_vars

\* close found one buffered value and one queued putter; the get after it
\* received the buffered value and the get after that was refused.
C6_Witness ==
  /\ ~open_
  /\ buffer_ = <<>>
  /\ Len(ops) = 4
  /\ Len(posted) = 4
  /\ \A k \in 1..4 : posted[k].op = k /\ posted[k].mode = "immediate"
  /\ ops[1].kind = "put" /\ ops[1].ec = "none"
  /\ ops[2].kind = "put" /\ ops[2].ec = "broken_pipe"
  /\ ops[3].kind = "get" /\ ops[3].ec = "none" /\ ops[3].value = ops[1].value
  /\ ops[4].kind = "get" /\ ops[4].ec = "broken_pipe"

\* The step resolves every operation queued before it with error ec, once
\* each, getters first, and resolves nothing else.
QueuedResolvedWith(ec) ==
  LET q == getters_ \o putters_
  IN /\ Len(posted') = Len(posted) + Len(q)
     /\ SubSeq(posted', 1, Len(posted)) = posted
     /\ \A k \in 1..Len(q) : posted'[Len(posted) + k].op = q[k]
     /\ Len(ops') = Len(ops)
     /\ \A i \in 1..Len(ops) :
          IF \E k \in 1..Len(q) : q[k] = i
          THEN ops'[i] = [ops[i] EXCEPT !.ec = ec]
          ELSE ops'[i] = ops[i]

\* C7: close sets open_ to false, resolves every queued getter and every
\* queued putter with broken_pipe, leaves both queues empty and leaves the
\* buffered values as they were.
C7_Close ==
  [][close =>
       /\ ~open_'
       /\ QueuedResolvedWith("broken_pipe")
       /\ putters_' = <<>>
       /\ getters_' = <<>>
       /\ buffer_' = buffer_
    ]_vars

\* A full buffer with one putter parked behind it; close refused the
\* putter and kept the buffer.
C7_Witness ==
  /\ ~open_
  /\ max_buffer_size_ > 0
  /\ Len(buffer_) = max_buffer_size_
  /\ Len(ops) = max_buffer_size_ + 1
  /\ work_started_ = 1
  /\ ops[Len(ops)].kind = "put"
  /\ ops[Len(ops)].ec = "broken_pipe"
  /\ IsPosted(Len(ops))
  /\ putters_ = <<>>

\* What put(v) followed by get does on an open channel with empty queues,
\* from its buffer and its capacity alone: the put is buffered if there is
\* room and parked otherwise; the get returns the oldest value, which is v
\* when the buffer was empty, and v ends up buffered otherwise.
PutThenGet(s1, v, c2) ==
  LET p == Len(s1.ops) + 1
      g == Len(s1.ops) + 2
      b == s1.buffer_
      room == Len(b) < s1.max_buffer_size_
  IN [s1 EXCEPT
        !.ops = @ \o <<[kind |-> "put", value |-> v, ec |-> "none"],
                       [kind |-> "get", ec |-> "none",
                        value |-> IF b = <<>> THEN v ELSE Head(b)]>>,
        !.buffer_ = IF b = <<>> THEN <<>> ELSE Append(Tail(b), v),
        !.posted = @ \o <<[op |-> p,
                           mode |-> IF room THEN "immediate" ELSE "deferred"],
                          [op |-> g, mode |-> "immediate"]>>,
        !.hint = c2,
        !.work_started_ = IF room THEN @ ELSE @ + 1]

ReuseAfter(s1, v, c1, c2) ==
  \A s2 \in {put_call(s1, v, c1)} :
    get_call(s2, c2) = PutThenGet(s1, v, c2)

\* C8: cancel resolves every queued getter and putter with
\* operation_aborted, leaves both queues empty and leaves open_ and the
\* buffer as they were; and on an open channel a put followed by a get
\* after cancel do what they do on a channel with empty queues: the put is
\* buffered if there is room and parked otherwise, the get returns the
\* oldest value (the put's own value when the buffer was empty).
C8_Cancel ==
  [][cancel =>
       /\ QueuedResolvedWith("operation_aborted")
       /\ putters_' = <<>>
       /\ getters_' = <<>>
       /\ UNCHANGED <<open_, buffer_, max_buffer_size_, work_started_>>
       /\ open_' => \A s1 \in {State'}, c1, c2 \in BOOLEAN :
                      ReuseAfter(s1, NewValue(s1), c1, c2)
    ]_vars

\* Two getters were cancelled on an open channel; the put and the get
\* submitted afterwards succeeded, the get returning the put's value.
C8_Witness ==
  /\ life = "live"
  /\ open_
  /\ Len(ops) = 4
  /\ ops[1].kind = "get" /\ ops[1].ec = "operation_aborted"
  /\ ops[2].kind = "get" /\ ops[2].ec = "operation_aborted"
  /\ ops[3].kind = "put" /\ ops[3].ec = "none"
  /\ ops[4].kind = "get" /\ ops[4].ec = "none"
  /\ ops[4].value = ops[3].value
  /\ \A i \in 1..4 : IsPosted(i)

\* C9: close is idempotent: from every reachable state, close applied
\* twice gives the state close applied once gives (the channel, the
\* operations and the completions handed over), so the second close
\* resolves nothing.
C9_CloseIdempotent ==
  close_call(close_call(State)) = close_call(State)

\* Two getters were parked and then refused by close; the channel is in
\* the state a second close starts from.
C9_Witness ==
  /\ life = "live"
  /\ ~open_
  /\ Len(ops) = 2
  /\ work_started_ = 2
  /\ ops[1].kind = "get" /\ ops[1].ec = "broken_pipe"
  /\ ops[2].kind = "get" /\ ops[2].ec = "broken_pipe"
  /\ OccPosted(1) = 1 /\ OccPosted(2) = 1

\* C10: a put on an open channel with a queued getter pops the front
\* getter, which receives the put's value; the getter is handed over by
\* post_deferred_completion and then the putter by
\* post_immediate_completion, both without error; the buffer is unchanged.
C10_PutHandOff ==
  [][(PutStep /\ open_ /\ getters_ # <<>>) =>
       LET p == Len(ops')
           g == Head(getters_)
       IN /\ getters_' = Tail(getters_)
          /\ ops'[g] = [ops[g] EXCEPT !.value = NewValue(State)]
          /\ ops'[g].ec = "none"
          /\ ops'[p].ec = "none"
          /\ \A i \in 1..Len(ops) : i # g => ops'[i] = ops[i]
          /\ PostedNow(<<[op |-> g, mode |-> "deferred"],
                         [op |-> p, mode |-> "immediate"]>>)
          /\ UNCHANGED <<buffer_, putters_, open_, work_started_>>
    ]_vars

\* A getter waited on a channel with buffer space; the put that followed
\* handed it its value and the buffer stayed empty.
C10_Witness ==
  /\ max_buffer_size_ > 0
  /\ buffer_ = <<>>
  /\ Len(ops) = 2
  /\ ops[1].kind = "get" /\ ops[2].kind = "put"
  /\ ops[1].value = ops[2].value
  /\ posted = <<[op |-> 1, mode |-> "deferred"],
                [op |-> 2, mode |-> "immediate"]>>
  /\ hint

\* C11 as stated: a get that finds a queued putter receives the front
\* putter's value and leaves the buffer as it was, for every capacity.
C11_AsStated ==
  [][(GetStep /\ putters_ # <<>>) =>
       /\ ops'[Len(ops')].value = ops[Head(putters_)].value
       /\ buffer_' = buffer_
    ]_vars

\* C11 (amended): a get that finds a queued putter and an empty buffer,
\* which happens only at capacity 0, receives the front putter's value by
\* direct hand-off and leaves the buffer empty; with a non-empty buffer the
\* get receives the oldest buffered value and the front putter's value is
\* appended to the buffer.
C11_GetWithQueuedPutter ==
  [][(GetStep /\ putters_ # <<>>) =>
       IF buffer_ = <<>>
       THEN /\ max_buffer_size_ = 0
            /\ ops'[Len(ops')].value = ops[Head(putters_)].value
            /\ buffer_' = <<>>
       ELSE /\ ops'[Len(ops')].value = Head(buffer_)
            /\ buffer_' = Append(Tail(buffer_), ops[Head(putters_)].value)
    ]_vars

\* Two putters waited on a rendezvous channel; the get received the value
\* of the first and the second still waits.
C11_Witness ==
  /\ max_buffer_size_ = 0
  /\ buffer_ = <<>>
  /\ Len(ops) = 3
  /\ ops[1].kind = "put" /\ ops[2].kind = "put" /\ ops[3].kind = "get"
  /\ ops[3].value = ops[1].value
  /\ ops[3].ec = "none"
  /\ putters_ = <<2>>

\* What a get submitted in the state s comes to: it is served (handed to
\* the io_service without error), refused, or parked in getters_.
GetServed(t, g) ==
  /\ t.ops[g].ec = "none"
  /\ \E k \in 1..Len(t.posted) : t.posted[k].op = g

GetParked(t, g) ==
  \E k \in 1..Len(t.getters_) : t.getters_[k] = g

\* C12 as stated: ready is true if and only if a get submitted in that
\* state would be resolved in the same call rather than parked.
C12_AsStated ==
  life = "live" =>
    \A t \in {get_call(State, FALSE)} :
      ready(State) <=> ~GetParked(t, Len(ops) + 1)

\* C12 (amended): ready is true if and only if a get submitted in that
\* state would be resolved in the same call with a value and no error; on
\* an open channel that is exactly when the get would not be parked; on a
\* closed channel with nothing to read ready is false although the get is
\* resolved in the same call, with broken_pipe.
C12_Ready ==
  life = "live" =>
    \A t \in {get_call(State, FALSE)} :
      LET g == Len(ops) + 1
      IN /\ ready(State) <=> GetServed(t, g)
         /\ GetServed(t, g) => t.ops[g].value # NoValue
         /\ open_ => (ready(State) <=> ~GetParked(t, g))
         /\ (~open_ /\ ~ready(State)) =>
              /\ ~GetParked(t, g)
              /\ t.ops[g].ec = "broken_pipe"
              /\ t.posted[Len(t.posted)] = [op |-> g, mode |-> "immediate"]

\* An open rendezvous channel with a waiting putter: ready is true with an
\* empty buffer.
C12_Witness ==
  /\ life = "live"
  /\ open_
  /\ buffer_ = <<>>
  /\ putters_ # <<>>
  /\ ready(State)

\* The operation i is handed to the io_service in this step.
NewlyPosted(i) ==
  \E k \in (Len(posted) + 1)..Len(posted') : posted'[k].op = i

\* C13: on a channel of capacity 0 the buffer is always empty; a put on
\* the open channel with no queued getter is parked; a get that finds a
\* parked put returns its value, the put being handed over by
\* post_deferred_completion and then the get by post_immediate_completion;
\* and a put is resolved without error only in a step that matches it with
\* a get (its own call finding a queued getter, or a later get).
C13_Rendezvous ==
  [][max_buffer_size_' = 0 =>
       /\ buffer_' = <<>>
       /\ (PutStep /\ open_ /\ getters_ = <<>>) =>
            /\ putters_' = Append(putters_, Len(ops'))
            /\ posted' = posted
            /\ work_started_' = work_started_ + 1
       /\ (GetStep /\ putters_ # <<>>) =>
            /\ ops'[Len(ops')].value = ops[Head(putters_)].value
            /\ ops'[Len(ops')].ec = "none"
            /\ ops'[Head(putters_)].ec = "none"
            /\ putters_' = Tail(putters_)
            /\ PostedNow(<<[op |-> Head(putters_), mode |-> "deferred"],
                           [op |-> Len(ops'), mode |-> "immediate"]>>)
       /\ \A i \in 1..Len(ops') :
            (ops'[i].kind = "put" /\ ops'[i].ec = "none" /\ NewlyPosted(i)) =>
              \/ PutStep /\ i = Len(ops') /\ getters_ # <<>>
              \/ GetStep /\ putters_ # <<>> /\ i = Head(putters_)
    ]_vars

\* Capacity 0: the put was parked, the get that followed returned its
\* value; the put was handed over deferred, then the get immediate.
C13_Witness ==
  /\ max_buffer_size_ = 0
  /\ buffer_ = <<>>
  /\ Len(ops) = 2
  /\ ops[1].kind = "put" /\ ops[1].ec = "none"
  /\ ops[2].kind = "get" /\ ops[2].ec = "none"
  /\ ops[2].value = ops[1].value
  /\ work_started_ = 1
  /\ posted = <<[op |-> 1, mode |-> "deferred"],
                [op |-> 2, mode |-> "immediate"]>>

\* The operations waiting in a pair of queues.
Waiting(p, g) ==
  {p[k] : k \in 1..Len(p)} \cup {g[k] : k \in 1..Len(g)}

\* C14: work accounting is balanced. In every step work_started is called
\* once for each operation the step parks, which is the operation just
\* submitted, and for nothing else; every operation that leaves a wait
\* queue is handed to the io_service exactly once in that step, and no
\* operation that stays queued is handed over. So the work_started calls
\* not yet matched by such a hand-over grow and shrink with the number of
\* queued operations, step by step from zero, and work_started has been
\* called whenever an operation is queued.
C14_WorkBalanced ==
  [][LET Q == Waiting(putters_, getters_)
         QN == Waiting(putters_', getters_')
         parked == QN \ Q
         released == Q \ QN
     IN /\ work_started_' = work_started_ + Cardinality(parked)
        /\ \A i \in parked : i = Len(ops') /\ Len(ops') = Len(ops) + 1
        /\ \A i \in released :
             Cardinality({k \in (Len(posted) + 1)..Len(posted') :
                            posted'[k].op = i}) = 1
        /\ \A i \in Q \cap QN : ~NewlyPosted(i)
        /\ (work_started_' - work_started_) - Cardinality(released)
             = Cardinality(QN) - Cardinality(Q)
        /\ Cardinality(QN) = Len(putters_') + Len(getters_')
        /\ work_started_' >= Cardinality(QN)
        /\ QN # {} => work_started_' > 0
    ]_vars

\* Three operations were parked: one was released by a peer, one by
\* cancel, and one is still waiting.
C14_Witness ==
  /\ work_started_ = 3
  /\ Len(putters_) + Len(getters_) = 1
  /\ \E i \in 1..Len(ops) : ops[i].ec = "none" /\ PostedAs(i, "deferred")
  /\ \E i \in 1..Len(ops) : ops[i].ec = "operation_aborted"

\* C15: while the channel is closed no value enters the buffer: a step
\* taken from a closed channel leaves the buffer as it was, or is a get
\* that removes its front; the refill of do_get never runs, since no
\* putter is queued on a closed channel.
C15_ClosedBufferOnlyShrinks ==
  [][~open_ =>
       \/ buffer_' = buffer_
       \/ /\ GetStep
          /\ buffer_ # <<>>
          /\ buffer_' = Tail(buffer_)
          /\ putters_ = <<>>
    ]_vars

\* A channel of capacity 2 was closed holding one value; the put that
\* followed was refused although there was room, and the get after it
\* took the value.
C15_Witness ==
  /\ ~open_
  /\ max_buffer_size_ = 2
  /\ buffer_ = <<>>
  /\ work_started_ = 0
  /\ Len(ops) = 3
  /\ ops[1].kind = "put" /\ ops[1].ec = "none"
  /\ ops[2].kind = "put" /\ ops[2].ec = "broken_pipe"
  /\ ops[3].kind = "get" /\ ops[3].ec = "none"
  /\ ops[3].value = ops[1].value

\* C16: a get on a channel with a non-empty buffer and a queued putter
\* returns the oldest buffered value, appends the front putter's value at
\* the back of the buffer, pops that putter alone and hands it over by
\* post_deferred_completion without error, then hands the getter over by
\* post_immediate_completion; the buffer has the size it had.
C16_GetRefill ==
  [][(GetStep /\ buffer_ # <<>> /\ putters_ # <<>>) =>
       LET g == Len(ops')
           p == Head(putters_)
       IN /\ ops'[g].value = Head(buffer_)
          /\ ops'[g].ec = "none"
          /\ ops'[p] = ops[p]
          /\ ops[p].ec = "none"
          /\ OldOpsUnchanged
          /\ buffer_' = Append(Tail(buffer_), ops[p].value)
          /\ Len(buffer_') = Len(buffer_)
          /\ putters_' = Tail(putters_)
          /\ PostedNow(<<[op |-> p, mode |-> "deferred"],
                         [op |-> g, mode |-> "immediate"]>>)
          /\ UNCHANGED <<getters_, open_, work_started_>>
    ]_vars

\* Capacity 2: two puts were buffered, the third was parked; the get
\* returned the first value, released the third put, and the buffer holds
\* the second and third values.
C16_Witness ==
  /\ max_buffer_size_ = 2
  /\ Len(ops) = 4
  /\ ops[1].kind = "put" /\ ops[2].kind = "put" /\ ops[3].kind = "put"
  /\ ops[4].kind = "get"
  /\ ops[4].value = ops[1].value
  /\ buffer_ = <<ops[2].value, ops[3].value>>
  /\ putters_ = <<>>
  /\ posted = <<[op |-> 1, mode |-> "immediate"],
                [op |-> 2, mode |-> "immediate"],
                [op |-> 3, mode |-> "deferred"],
                [op |-> 4, mode |-> "immediate"]>>
  /\ \A i \in 1..4 : ops[i].ec = "none"

\* The step is async_put or async_get called with is_continuation = c.
SubmittedWith(c) ==
  \/ Commit(put_call(State, NewValue(State), c))
  \/ Commit(get_call(State, c))

\* C17: in a put or get call, an operation that was waiting in a queue is
\* handed over by post_deferred_completion, never by
\* post_immediate_completion; the operation the call submits, when it is
\* resolved in the call, is handed over by post_immediate_completion with
\* the caller's is_continuation; and when the call resolves both, the
\* woken peer is handed over first.
C17_DispatchModes ==
  [][(PutStep \/ GetStep) =>
       LET n == Len(ops')
           Q == Waiting(putters_, getters_)
       IN /\ \A k \in (Len(posted) + 1)..Len(posted') :
               IF posted'[k].op = n
               THEN /\ posted'[k].mode = "immediate"
                    /\ k = Len(posted')
               ELSE /\ posted'[k].mode = "deferred"
                    /\ posted'[k].op \in Q
          /\ SubSeq(posted', 1, Len(posted)) = posted
          /\ Len(posted') <= Len(posted) + 2
          /\ \A c \in BOOLEAN :
               (SubmittedWith(c) /\ NewlyPosted(n)) => hint' = c
          /\ ~NewlyPosted(n) => hint' = hint
    ]_vars

\* Capacity 1: the second put was parked and then released by a get
\* called with is_continuation set; the put was handed over deferred,
\* before the get, which was handed over immediate.
C17_Witness ==
  /\ max_buffer_size_ = 1
  /\ Len(ops) = 3
  /\ ops[1].kind = "put" /\ ops[2].kind = "put" /\ ops[3].kind = "get"
  /\ posted = <<[op |-> 1, mode |-> "immediate"],
                [op |-> 2, mode |-> "deferred"],
                [op |-> 3, mode |-> "immediate"]>>
  /\ hint

\* C18: putters wait only behind a full buffer: whenever putters_ is not
\* empty the buffer holds max_buffer_size_ values, so a queued putter next
\* to an empty buffer means capacity 0.
C18_PuttersOnlyWhenFull ==
  /\ putters_ # <<>> => Len(buffer_) = max_buffer_size_
  /\ (putters_ # <<>> /\ buffer_ = <<>>) => max_buffer_size_ = 0

\* Capacity 2: four puts, two of them parked; a get released the first
\* parked put into the buffer, which is full again with the other one
\* still waiting.
C18_Witness ==
  /\ max_buffer_size_ = 2
  /\ Len(buffer_) = 2
  /\ Len(ops) = 5
  /\ putters_ = <<4>>
  /\ PostedAs(3, "deferred")
  /\ ops[5].kind = "get"
  /\ ops[5].value = ops[1].value
  /\ buffer_ = <<ops[2].value, ops[3].value>>

\* The values of the operations of the given kind among the first n that
\* were resolved without error, in the order of their submission.
RECURSIVE ResolvedValues(_, _)
ResolvedValues(kind, n) ==
  IF n = 0 THEN <<>>
  ELSE IF ops[n].kind = kind /\ ops[n].ec = "none" /\ IsPosted(n)
       THEN Append(ResolvedValues(kind, n - 1), ops[n].value)
       ELSE ResolvedValues(kind, n - 1)

\* C19: values are delivered in the order of the puts, none lost and none
\* twice: the values received by the gets resolved without error, in the
\* order the gets were submitted, followed by the buffer, are the values of
\* the puts resolved without error, in the order the puts were submitted;
\* and the value of a put resolved with an error is neither buffered nor
\* received by any get.
C19_DeliveredInOrder ==
  /\ ResolvedValues("get", Len(ops)) \o buffer_
       = ResolvedValues("put", Len(ops))
  /\ \A i \in 1..Len(ops) :
       (ops[i].kind = "put" /\ ops[i].ec # "none") =>
         /\ \A k \in 1..Len(buffer_) : buffer_[k] # ops[i].value
         /\ \A j \in 1..Len(ops) :
              ops[j].kind = "get" => ops[j].value # ops[i].value

\* Capacity 1: one put buffered and two parked; a get took the first value
\* and let the second into the buffer; cancel then failed the third put.
C19_Witness ==
  /\ max_buffer_size_ = 1
  /\ Len(ops) = 4
  /\ ops[1].kind = "put" /\ ops[2].kind = "put" /\ ops[3].kind = "put"
  /\ ops[4].kind = "get"
  /\ ops[4].value = ops[1].value
  /\ buffer_ = <<ops[2].value>>
  /\ ops[3].ec = "operation_aborted"
  /\ ResolvedValues("put", 4) = <<ops[1].value, ops[2].value>>

\* C20: a closed channel has no waiting operation: whenever open_ is
\* false, putters_ and getters_ are empty; so the condition of do_get's
\* direct putter-to-getter branch (empty buffer, queued putter) never
\* holds on a closed channel.
C20_ClosedNothingWaits ==
  ~open_ =>
    /\ putters_ = <<>>
    /\ getters_ = <<>>
    /\ ~(buffer_ = <<>> /\ putters_ # <<>>)

\* A getter was parked and then refused by close; the put and the get
\* submitted to the closed channel were refused at once and nothing waits.
C20_Witness ==
  /\ life = "live"
  /\ ~open_
  /\ Len(ops) = 3
  /\ work_started_ = 1
  /\ ops[1].kind = "get" /\ ops[2].kind = "put" /\ ops[3].kind = "get"
  /\ \A i \in 1..3 : ops[i].ec = "broken_pipe" /\ OccPosted(i) = 1
  /\ putters_ = <<>>
  /\ getters_ = <<>>
====
